---- MODULE Spec2Model ----
(***************************************************************************)
(* Model of binance_signal_app/src/ws/binance.rs: the reconnecting stream  *)
(* client BinanceOrderbookWS::start, the apply step process_snapshot, and  *)
(* the query get_best_price, run by one engine task and several reader     *)
(* tasks that share one OrderbookSnapshot behind a tokio Mutex.            *)
(*                                                                         *)
(* Prices and quantities are counted in whole ticks; the decimal strings   *)
(* of the wire are kept as strings and go through ParseF64.                *)
(***************************************************************************)
EXTENDS Integers, Sequences, FiniteSets, TLC

\* ---- bounds ----
MaxLevels == 3      \* most [price, qty] pairs in one frame, bids and asks together
NumReaders == 2     \* tasks calling get_best_price
MaxClock == 1       \* last value the wall clock reaches

\* ---- wire values ----
\* Decimal strings that f64::from_str accepts, with their value in ticks.
NumVal == [s \in {"0", "1", "2"} |-> IF s = "0" THEN 0 ELSE IF s = "1" THEN 1 ELSE 2]

\* Mutant: unwrap_or(1.0)
ParseF64_one(s) == IF s \in DOMAIN NumVal THEN NumVal[s] ELSE 1

\* price.parse().unwrap_or(0.0): an unparsable string reads as 0.
ParseF64(s) == IF s \in DOMAIN NumVal THEN NumVal[s] ELSE 0

\* The [price, qty] string pairs a frame may list.
WirePairs == { <<"1", "1">>, <<"1", "2">>, <<"2", "1">>, <<"2", "0">>,
               <<"1", "abc">>, <<"abc", "1">> }

\* Field sets of the JSON text frames the feed may deliver.
TextShapes == { {"lastUpdateId", "bids", "asks"}, {"bids", "asks"},
                {"lastUpdateId", "asks"} }

\* Mutant: bids carries #[serde(default)], only asks is required.
Decodes_bidsOptional(fields) == "asks" \in fields

\* serde_json::from_str::<DepthUpdate>: bids and asks are required,
\* lastUpdateId is an Option.
Decodes(fields) == {"bids", "asks"} \subseteq fields

\* Items of the stream: Ok(Message::Text), Ok(any other Message), Err(e).
StreamItems == { [kind |-> "text", fields |-> f] : f \in TextShapes }
                 \cup { [kind |-> "binary", fields |-> {}],
                        [kind |-> "err", fields |-> {}] }

NoMsg == [kind |-> "none", fields |-> {}]

\* if let Ok(Message::Text(text)) = msg { if let Ok(data) = from_str(&text) {..} }
Accepts(m) == m.kind = "text" /\ Decodes(m.fields)

\* ---- BTreeMap<f64, f64> ----
EmptyMap == [p \in {} |-> 0]

\* Mutant: clear() is left out.
ClearMap_keep(m) == m

\* Mutant: a side is cleared only once it holds two levels or more.
ClearMap_whenFull(m) == IF Cardinality(DOMAIN m) >= 2 THEN EmptyMap ELSE m

ClearMap(m) == EmptyMap

\* Mutant: entry(p).or_insert(q), which keeps the quantity already stored.
Insert_keepFirst(m, p, q) ==
    [x \in (DOMAIN m) \cup {p} |-> IF x \in DOMAIN m THEN m[x] ELSE q]

Insert(m, p, q) == [x \in (DOMAIN m) \cup {p} |-> IF x = p THEN q ELSE m[x]]

\* Mutant: if q >= 0.0
Keep_nonNegative(q) == q >= 0

\* if q > 0.0
Keep(q) == q > 0

MaxOf(S) == CHOOSE x \in S : \A y \in S : y <= x
MinOf(S) == CHOOSE x \in S : \A y \in S : x <= y

\* Option
None == << >>
Some(x) == << x >>

\* Mutant: ob.bids.iter().next(), the rev() is left out.
LastEntry_first(m) == IF DOMAIN m = {} THEN None
                      ELSE Some(<< MinOf(DOMAIN m), m[MinOf(DOMAIN m)] >>)

\* ob.bids.iter().rev().next() and ob.asks.iter().next()
LastEntry(m) == IF DOMAIN m = {} THEN None
                ELSE Some(<< MaxOf(DOMAIN m), m[MaxOf(DOMAIN m)] >>)
FirstEntry(m) == IF DOMAIN m = {} THEN None
                 ELSE Some(<< MinOf(DOMAIN m), m[MinOf(DOMAIN m)] >>)

\* Mutant: the match gives None only when both sides are empty and fills a
\* missing side with (0.0, 0.0).
GetBestPrice_either(b, a) ==
    IF LastEntry(b) = None /\ FirstEntry(a) = None THEN None
    ELSE Some(<< IF LastEntry(b) = None THEN << 0, 0 >> ELSE LastEntry(b)[1],
                 IF FirstEntry(a) = None THEN << 0, 0 >> ELSE FirstEntry(a)[1] >>)

\* Mutant: the tuple is built as (best_ask, best_bid).
GetBestPrice_swapped(b, a) ==
    IF LastEntry(b) # None /\ FirstEntry(a) # None
    THEN Some(<< FirstEntry(a)[1], LastEntry(b)[1] >>)
    ELSE None

\* The match of get_best_price over (best_bid, best_ask).
GetBestPrice(b, a) ==
    IF LastEntry(b) # None /\ FirstEntry(a) # None
    THEN Some(<< LastEntry(b)[1], FirstEntry(a)[1] >>)
    ELSE None

\* ---- tokio::time::sleep ----
\* Duration::from_secs(3)
BackoffSecs == 3

\* No sleep is in progress.
NoDelay == 0

\* ---- tokio::sync::Mutex ----
Engine == 0
Readers == 1..NumReaders

\* Mutant: only the engine's guard excludes (readers share, as with a
\* read lock).
CanLock_shared(h) == Engine \notin h

\* Mutant: the guard is handed out whoever holds it.
CanLock_always(h) == TRUE

\* lock().await returns once nobody holds the guard.
CanLock(h) == h = {}

VARIABLES
    epc,      \* where the engine task stands in start / process_snapshot
    delay,    \* seconds the sleep in progress was asked for
    msg,      \* the item read.next() yielded, until it is dispatched
    data,     \* the DepthUpdate process_snapshot owns while it runs
    bids,     \* ob.bids
    asks,     \* ob.asks
    ts,       \* ob.timestamp
    now,      \* the wall clock Utc::now() reads
    holders,  \* tasks holding a guard of the orderbook mutex
    rpc,      \* where each reader stands in get_best_price
    result,   \* the value a reader has computed
    applied,  \* history: some process_snapshot has completed
    listed,   \* history: the levels the last completed process_snapshot was given
    found,    \* history: the last process_snapshot found bid levels in the book
    lost      \* history: the book as the last stream to end left it

vars == << epc, delay, msg, data, bids, asks, ts, now, holders, rpc, result,
           applied, listed, found, lost >>

EmptyUpdate == [bids |-> << >>, asks |-> << >>]

\* The (price, qty) values a list of wire pairs names; listed holds them for
\* both sides from the return of process_snapshot to its next call, and lost
\* holds a book from the end of a stream to that call.
Levels(pairs) ==
    { << ParseF64(pairs[i][1]), ParseF64(pairs[i][2]) >> : i \in 1..Len(pairs) }
NoLevels == [bids |-> {}, asks |-> {}]

\* BinanceOrderbookWS::new, and the tasks spawned by main.
Init ==
    /\ epc = "init"
    /\ delay = NoDelay
    /\ msg = NoMsg
    /\ data = EmptyUpdate
    /\ bids = EmptyMap
    /\ asks = EmptyMap
    /\ ts = 0
    /\ now = 0
    /\ holders = {}
    /\ rpc = [r \in Readers |-> "idle"]
    /\ result = [r \in Readers |-> None]
    /\ applied = FALSE
    /\ listed = NoLevels
    /\ found = FALSE
    /\ lost = None

book == << bids, asks, ts >>
hist == << applied, listed, found, lost >>
reader == << rpc, result >>

\* ---- the engine: start ----
\* The task is polled for the first time and builds the url.
Start ==
    /\ epc = "init"
    /\ epc' = "connect"
    /\ UNCHANGED << delay, msg, data, book, now, holders, reader, hist >>

\* Mutant: a new connection starts from an empty book.
ConnectOk_reset ==
    /\ epc = "connect"
    /\ epc' = "recv"
    /\ bids' = EmptyMap
    /\ asks' = EmptyMap
    /\ UNCHANGED << delay, msg, data, ts, now, holders, reader, hist >>

\* connect_async(&url).await => Ok((ws_stream, _))
ConnectOk ==
    /\ epc = "connect"
    /\ epc' = "recv"
    /\ UNCHANGED << delay, msg, data, book, now, holders, reader, hist >>

\* Mutant: the wait carries up to one second of jitter.
ConnectErr_jitter ==
    /\ epc = "connect"
    /\ epc' = "sleep"
    /\ delay' \in {BackoffSecs, BackoffSecs + 1}
    /\ UNCHANGED << msg, data, book, now, holders, reader, hist >>

\* connect_async(&url).await => Err(e): println, then
\* tokio::time::sleep(Duration::from_secs(3)).await
ConnectErr ==
    /\ epc = "connect"
    /\ epc' = "sleep"
    /\ delay' = BackoffSecs
    /\ UNCHANGED << msg, data, book, now, holders, reader, hist >>

\* The sleep is over; loop again.
SleepDone ==
    /\ epc = "sleep"
    /\ epc' = "connect"
    /\ delay' = NoDelay
    /\ UNCHANGED << msg, data, book, now, holders, reader, hist >>

\* read.next().await => Some(msg)
RecvItem ==
    /\ epc = "recv"
    /\ \E m \in StreamItems : msg' = m
    /\ epc' = "match"
    /\ UNCHANGED << delay, data, book, now, holders, reader, hist >>

\* Mutant: the end of the stream ends start.
RecvEnd_return ==
    /\ epc = "recv"
    /\ epc' = "done"
    /\ lost' = Some([bids |-> bids, asks |-> asks])
    /\ UNCHANGED << delay, msg, data, book, now, holders, reader, applied, listed, found >>

\* read.next().await => None: the while let ends, the Ok arm ends, loop again
RecvEnd ==
    /\ epc = "recv"
    /\ epc' = "connect"
    /\ lost' = Some([bids |-> bids, asks |-> asks])
    /\ UNCHANGED << delay, msg, data, book, now, holders, reader, applied, listed, found >>

\* Both if lets match: self.process_snapshot(data).await is entered.
DispatchApply ==
    /\ epc = "match"
    /\ Accepts(msg)
    /\ epc' = "ps_lock"
    /\ msg' = NoMsg
    /\ UNCHANGED << delay, data, book, now, holders, reader, hist >>

\* One of the if lets fails: the item is dropped, the while let reads on.
DispatchDrop ==
    /\ epc = "match"
    /\ ~Accepts(msg)
    /\ epc' = "recv"
    /\ msg' = NoMsg
    /\ UNCHANGED << delay, data, book, now, holders, reader, hist >>

\* ---- the engine: process_snapshot ----
\* Mutant: a pair of qty <= 0 removes the level of its price.
InsertLevel_removeOnZero(m, pair) ==
    LET p == ParseF64(pair[1])
        q == ParseF64(pair[2])
    IN  IF Keep(q) THEN Insert(m, p, q)
        ELSE [x \in (DOMAIN m) \ {p} |-> m[x]]

\* The body of both for loops: parse the pair, insert it when q > 0.0.
InsertLevel(m, pair) ==
    LET p == ParseF64(pair[1])
        q == ParseF64(pair[2])
    IN  IF Keep(q) THEN Insert(m, p, q) ELSE m

\* let mut ob = self.orderbook.lock().await;
\*
\* The frame is complete when it arrives, but no step reads a pair of it
\* before the loop turn that consumes the pair.  The model therefore draws
\* each pair at its turn and records it in data, which at the end of the two
\* loops is the update process_snapshot was called with.
PsLock ==
    /\ epc = "ps_lock"
    /\ CanLock(holders)
    /\ holders' = holders \cup {Engine}
    /\ data' = EmptyUpdate
    /\ epc' = "ps_clear_bids"
    /\ listed' = NoLevels
    /\ found' = (DOMAIN bids # {})
    /\ lost' = None
    /\ UNCHANGED << delay, msg, book, now, reader, applied >>

\* ob.bids.clear();
PsClearBids ==
    /\ epc = "ps_clear_bids"
    /\ bids' = ClearMap(bids)
    /\ epc' = "ps_clear_asks"
    /\ UNCHANGED << delay, msg, data, asks, ts, now, holders, reader, hist >>

\* ob.asks.clear();
PsClearAsks ==
    /\ epc = "ps_clear_asks"
    /\ asks' = ClearMap(asks)
    /\ epc' = "ps_bids"
    /\ UNCHANGED << delay, msg, data, bids, ts, now, holders, reader, hist >>

\* One turn of for [price, qty] in data.bids
PsInsertBid ==
    /\ epc = "ps_bids"
    /\ Len(data.bids) + Len(data.asks) < MaxLevels
    /\ \E pair \in WirePairs :
         /\ data' = [data EXCEPT !.bids = Append(@, pair)]
         /\ bids' = InsertLevel(bids, pair)
    /\ UNCHANGED << delay, epc, msg, asks, ts, now, holders, reader, hist >>

\* data.bids is exhausted
PsBidsDone ==
    /\ epc = "ps_bids"
    /\ epc' = "ps_asks"
    /\ UNCHANGED << delay, msg, data, book, now, holders, reader, hist >>

\* One turn of for [price, qty] in data.asks
PsInsertAsk ==
    /\ epc = "ps_asks"
    /\ Len(data.bids) + Len(data.asks) < MaxLevels
    /\ \E pair \in WirePairs :
         /\ data' = [data EXCEPT !.asks = Append(@, pair)]
         /\ asks' = InsertLevel(asks, pair)
    /\ UNCHANGED << delay, epc, msg, bids, ts, now, holders, reader, hist >>

\* data.asks is exhausted
PsAsksDone ==
    /\ epc = "ps_asks"
    /\ epc' = "ps_ts"
    /\ UNCHANGED << delay, msg, data, book, now, holders, reader, hist >>

\* Mutant: the assignment of ob.timestamp is left out.
PsFinish_noStamp ==
    /\ epc = "ps_ts"
    /\ ts' = ts
    /\ holders' = holders \ {Engine}
    /\ data' = EmptyUpdate
    /\ epc' = "recv"
    /\ applied' = TRUE
    /\ listed' = [bids |-> Levels(data.bids), asks |-> Levels(data.asks)]
    /\ UNCHANGED << delay, msg, bids, asks, now, reader, found, lost >>

\* Mutant: the guard outlives the call (it is kept in self).
PsFinish_keepGuard ==
    /\ epc = "ps_ts"
    /\ ts' = now
    /\ holders' = holders
    /\ data' = EmptyUpdate
    /\ epc' = "recv"
    /\ applied' = TRUE
    /\ listed' = [bids |-> Levels(data.bids), asks |-> Levels(data.asks)]
    /\ UNCHANGED << delay, msg, bids, asks, now, reader, found, lost >>

\* ob.timestamp = Utc::now(); the function returns: the guard and data are
\* dropped, and the while let reads on.
PsFinish ==
    /\ epc = "ps_ts"
    /\ ts' = now
    /\ holders' = holders \ {Engine}
    /\ data' = EmptyUpdate
    /\ epc' = "recv"
    /\ applied' = TRUE
    /\ listed' = [bids |-> Levels(data.bids), asks |-> Levels(data.asks)]
    /\ UNCHANGED << delay, msg, bids, asks, now, reader, found, lost >>

\* process_snapshot from lock to return, as a function of the book it finds
\* and the update it is given.
RECURSIVE ApplyLevels(_, _)
ApplyLevels(m, levels) ==
    IF levels = << >> THEN m
    ELSE ApplyLevels(InsertLevel(m, Head(levels)), Tail(levels))

ProcessSnapshot(b, a, u) ==
    [bids |-> ApplyLevels(ClearMap(b), u.bids),
     asks |-> ApplyLevels(ClearMap(a), u.asks)]

\* ---- a reader: get_best_price ----
\* let ob = self.orderbook.lock().await;
RLock(r) ==
    /\ rpc[r] = "idle"
    /\ CanLock(holders)
    /\ holders' = holders \cup {r}
    /\ rpc' = [rpc EXCEPT ![r] = "locked"]
    /\ UNCHANGED << delay, epc, msg, data, book, now, result, hist >>

\* Mutant: the best bid is taken out of the map (pop_last).
RCompute_pop(r) ==
    /\ rpc[r] = "locked"
    /\ result' = [result EXCEPT ![r] = GetBestPrice(bids, asks)]
    /\ rpc' = [rpc EXCEPT ![r] = "computed"]
    /\ bids' = [p \in (DOMAIN bids) \ {MaxOf(DOMAIN bids \cup {0})} |-> bids[p]]
    /\ UNCHANGED << delay, epc, msg, data, asks, ts, now, holders, hist >>

\* best_bid, best_ask and the match over them
RCompute(r) ==
    /\ rpc[r] = "locked"
    /\ result' = [result EXCEPT ![r] = GetBestPrice(bids, asks)]
    /\ rpc' = [rpc EXCEPT ![r] = "computed"]
    /\ UNCHANGED << delay, epc, msg, data, book, now, holders, hist >>

\* The value goes to the caller and the guard is dropped.
RReturn(r) ==
    /\ rpc[r] = "computed"
    /\ holders' = holders \ {r}
    /\ rpc' = [rpc EXCEPT ![r] = "idle"]
    /\ result' = [result EXCEPT ![r] = None]
    /\ UNCHANGED << delay, epc, msg, data, book, now, hist >>

\* ---- the wall clock ----
Tick ==
    /\ now < MaxClock
    /\ now' = now + 1
    /\ UNCHANGED << delay, epc, msg, data, book, holders, reader, hist >>

Next ==
    \/ Start
    \/ ConnectOk
    \/ ConnectErr
    \/ SleepDone
    \/ RecvItem
    \/ RecvEnd
    \/ DispatchApply
    \/ DispatchDrop
    \/ PsLock
    \/ PsClearBids
    \/ PsClearAsks
    \/ PsInsertBid
    \/ PsBidsDone
    \/ PsInsertAsk
    \/ PsAsksDone
    \/ PsFinish
    \/ \E r \in Readers : RLock(r)
    \/ \E r \in Readers : RCompute(r)
    \/ \E r \in Readers : RReturn(r)
    \/ Tick

Spec == Init /\ [][Next]_vars

\* The runtime's timer fires: a sleep that was started comes to its end.
FairSpec == Spec /\ WF_vars(SleepDone)

\* ---- what the claims speak of ----
Price(pair) == ParseF64(pair[1])
Qty(pair) == ParseF64(pair[2])

\* process_snapshot has run both loops over data and is about to return.
PsDone == epc = "ps_ts"

\* The engine is between taking the lock and returning from process_snapshot.
ApplyPcs == {"ps_clear_bids", "ps_clear_asks", "ps_bids", "ps_asks", "ps_ts"}

\* The engine reads from an open stream and is not applying.
StreamingPcs == {"recv", "match", "ps_lock"}

PosPrices(levels) == { l[1] : l \in { x \in levels : x[2] > 0 } }
AllPrices(levels) == { l[1] : l \in levels }

\* Every pair of the list is in the map as written, and no price of a pair
\* with qty <= 0 is in it.
HoldsEveryPair(m, pairs) ==
    \A i \in 1..Len(pairs) :
        /\ Qty(pairs[i]) > 0 =>
              Price(pairs[i]) \in DOMAIN m /\ m[Price(pairs[i])] = Qty(pairs[i])
        /\ Qty(pairs[i]) <= 0 => Price(pairs[i]) \notin DOMAIN m

\* Pair i has qty > 0 and no later pair of its price has.
LastPositive(pairs, i) ==
    /\ Qty(pairs[i]) > 0
    /\ \A j \in (i + 1)..Len(pairs) :
          Price(pairs[j]) = Price(pairs[i]) => Qty(pairs[j]) <= 0

HoldsLastPositive(m, pairs) ==
    /\ \A i \in 1..Len(pairs) :
          LastPositive(pairs, i) =>
              Price(pairs[i]) \in DOMAIN m /\ m[Price(pairs[i])] = Qty(pairs[i])
    /\ \A p \in DOMAIN m :
          \E i \in 1..Len(pairs) : Price(pairs[i]) = p /\ Qty(pairs[i]) > 0

\* C1 (as claimed): when process_snapshot(U) has run, every pair of U with
\* qty > 0 is in its side's map with exactly that quantity, and no price of a
\* pair with qty <= 0 is in the map, also when U names a price twice.
C1_EveryPairStored ==
    PsDone => HoldsEveryPair(bids, data.bids) /\ HoldsEveryPair(asks, data.asks)

\* C1 (amended): when process_snapshot(U) has run, every pair of U with
\* qty > 0 that no later pair of the same price and qty > 0 follows is in its
\* side's map with exactly that quantity, and the map holds no price that U
\* does not name with a qty > 0.
C1_LastPositivePairStored ==
    PsDone => HoldsLastPositive(bids, data.bids) /\ HoldsLastPositive(asks, data.asks)

\* U names one bid price twice with two positive quantities, and a bid price
\* with a positive and then a non-positive quantity.
C1_Witness ==
    /\ PsDone
    /\ \E i, j \in 1..Len(data.bids) :
          /\ i < j
          /\ Price(data.bids[i]) = Price(data.bids[j])
          /\ Qty(data.bids[i]) > 0
          /\ Qty(data.bids[j]) > 0
          /\ Qty(data.bids[i]) # Qty(data.bids[j])
    /\ \E i, j \in 1..Len(data.bids) :
          /\ i < j
          /\ Price(data.bids[i]) = Price(data.bids[j])
          /\ Qty(data.bids[i]) > 0
          /\ Qty(data.bids[j]) <= 0

\* The value get_best_price is to return for the levels of the last update.
BestOfListed(r) ==
    LET bid == result[r][1][1]
        ask == result[r][1][2]
    IN  /\ result[r] # None
        /\ bid[1] = MaxOf(PosPrices(listed.bids))
        /\ bid[1] \in DOMAIN bids
        /\ bid[2] = bids[bid[1]]
        /\ ask[1] = MinOf(PosPrices(listed.asks))
        /\ ask[1] \in DOMAIN asks
        /\ ask[2] = asks[ask[1]]

\* C2 (as claimed): after process_snapshot(U) with U naming at least one bid
\* and one ask, get_best_price returns Some of the highest positive-quantity
\* bid and the lowest positive-quantity ask of U, with their stored quantities.
C2_BestOfAnyBidAndAsk ==
    \A r \in Readers :
        (rpc[r] = "computed" /\ listed.bids # {} /\ listed.asks # {})
            => (PosPrices(listed.bids) # {} /\ PosPrices(listed.asks) # {}
                /\ BestOfListed(r))

\* C2 (amended): after process_snapshot(U) with U naming at least one bid
\* with qty > 0 and at least one ask with qty > 0, get_best_price returns
\* Some of the highest such bid price and the lowest such ask price, each with
\* the quantity stored for it.
C2_BestOfPositiveBidAndAsk ==
    \A r \in Readers :
        (rpc[r] = "computed" /\ PosPrices(listed.bids) # {}
                             /\ PosPrices(listed.asks) # {})
            => BestOfListed(r)

\* A reader has its value after an update with two bid prices of qty > 0.
C2_Witness ==
    \E r \in Readers :
        /\ rpc[r] = "computed"
        /\ Cardinality(PosPrices(listed.bids)) >= 2
        /\ PosPrices(listed.asks) # {}
        /\ result[r] # None

\* C3: get_best_price returns None exactly when a side of the book is empty
\* while it holds the lock, and always before the first process_snapshot has
\* completed, wherever the engine stands.
C3_NoneIffSideEmpty ==
    \A r \in Readers :
        rpc[r] = "computed" =>
            /\ (result[r] = None) <=> (DOMAIN bids = {} \/ DOMAIN asks = {})
            /\ ~applied => result[r] = None

\* A reader got None while the engine backs off, before anything was applied.
C3_Witness ==
    \E r \in Readers :
        rpc[r] = "computed" /\ ~applied /\ epc = "sleep" /\ result[r] = None

\* C4: a reader holds the lock only while the engine is outside the
\* clear-and-repopulate sequence, and the value it computes is the one of the
\* book a completed process_snapshot (or the constructor) left.
C4_ReadersSeeWholeBooks ==
    \A r \in Readers :
        /\ rpc[r] \in {"locked", "computed"} => epc \notin ApplyPcs
        /\ rpc[r] = "computed" => result[r] = GetBestPrice(bids, asks)

\* A reader has read a non-empty book while the engine waits for the lock
\* with the next update in hand.
C4_Witness ==
    \E r \in Readers :
        rpc[r] = "computed" /\ applied /\ epc = "ps_lock" /\ result[r] # None

\* C5: whenever the lock is free, each side of the book holds only prices the
\* last applied update names on that side; levels of earlier updates are gone.
C5_OnlyLevelsOfLastUpdate ==
    holders = {} =>
        /\ DOMAIN bids \subseteq AllPrices(listed.bids)
        /\ DOMAIN asks \subseteq AllPrices(listed.asks)

\* The lock is free after an update that names no bid was applied to a book
\* that had bid levels, while its ask side is kept.
C5_Witness ==
    holders = {} /\ applied /\ found /\ DOMAIN bids = {} /\ DOMAIN asks # {}

\* C6: every quantity in the bid map and in the ask map is > 0, in every
\* state, also in the middle of process_snapshot.
C6_StoredQtyPositive ==
    /\ \A p \in DOMAIN bids : bids[p] > 0
    /\ \A p \in DOMAIN asks : asks[p] > 0

\* The bid loop has consumed a pair with qty <= 0 and has stored a level.
C6_Witness ==
    /\ epc = "ps_bids"
    /\ DOMAIN bids # {}
    /\ \E i \in 1..Len(data.bids) : Qty(data.bids[i]) <= 0

\* C7: applying U to the book that applying U has produced leaves the bid
\* map, the ask map and the value of get_best_price as they are.
C7_ApplyTwiceIsApplyOnce ==
    PsDone =>
        LET again == ProcessSnapshot(bids, asks, data)
        IN  /\ again.bids = bids
            /\ again.asks = asks
            /\ GetBestPrice(again.bids, again.asks) = GetBestPrice(bids, asks)

\* U, with levels on both sides, was applied to a book that had bid levels.
C7_Witness ==
    PsDone /\ found /\ DOMAIN bids # {} /\ DOMAIN asks # {} /\ Len(data.bids) >= 2

\* A text frame that lacks bids or asks, or an item that is no text frame.
Undecodable(m) ==
    m.kind # "text" \/ "bids" \notin m.fields \/ "asks" \notin m.fields

\* C8: while the engine holds an item that is not a decodable text frame, no
\* step changes the book or its timestamp, and the engine's next step takes it
\* back to reading the same stream without entering process_snapshot.
C8_DroppedItemIsNoOp ==
    [][ (epc = "match" /\ Undecodable(msg)) =>
            /\ bids' = bids
            /\ asks' = asks
            /\ ts' = ts
            /\ epc' \in {"match", "recv"} ]_vars

\* The engine holds a text frame without bids while the book has levels.
C8_Witness ==
    /\ epc = "match"
    /\ msg.kind = "text"
    /\ "bids" \notin msg.fields
    /\ DOMAIN bids # {}
    /\ ts # now

\* The engine reads a stream opened after another one ended, and has applied
\* nothing since.
Reconnected == lost # None /\ epc \in StreamingPcs

\* C9 (as claimed): after a reconnect and until the first update of the new
\* connection is applied, get_best_price returns None.
C9_NoneAfterReconnect ==
    \A r \in Readers :
        (Reconnected /\ rpc[r] = "computed") => result[r] = None

\* C9 (amended): after a reconnect and until the first update of the new
\* connection is applied, the book is the one the lost connection left, and
\* get_best_price returns the best prices of that book: None only when one of
\* its sides is empty.
C9_StaleBookAfterReconnect ==
    Reconnected =>
        /\ bids = lost[1].bids
        /\ asks = lost[1].asks
        /\ \A r \in Readers :
              rpc[r] = "computed" =>
                  /\ result[r] = GetBestPrice(lost[1].bids, lost[1].asks)
                  /\ (result[r] = None) <=>
                        (DOMAIN lost[1].bids = {} \/ DOMAIN lost[1].asks = {})

\* A reader got prices on a new connection that has delivered nothing yet.
C9_Witness ==
    \E r \in Readers :
        Reconnected /\ epc = "recv" /\ rpc[r] = "computed" /\ result[r] # None

\* C10 (as claimed): when the stream yields no more messages the engine goes
\* to the backoff wait, so one wait lies between the end of a stream and the
\* next connect attempt.
C10_BackoffAfterStreamEnd ==
    [][ (epc = "recv" /\ epc' \notin {"recv", "match"}) => epc' = "sleep" ]_vars

\* C11 (as claimed): when the stream delivers a transport error item the
\* engine leaves the receive loop for a new connect attempt; it does not go
\* back to reading the stream that failed.
C11_ReadErrorLeavesStream ==
    [][ (epc = "match" /\ msg.kind = "err") => epc' # "recv" ]_vars

\* C12: a connect attempt that fails is followed by one wait of BackoffSecs
\* seconds, whatever the number of failures before it, and the wait by the
\* next connect attempt: the engine leaves a failed attempt only into the sleep,
\* asked for BackoffSecs; it leaves the sleep only into a connect attempt; a
\* connect attempt is only ever entered from the start of the task, from the
\* end of a sleep or from the end of a stream; the attempt may fail again every
\* time; and with a timer that fires every sleep ends in a connect attempt.
C12_FixedBackoffThenReconnect ==
    /\ [][ (epc = "connect" /\ epc' \notin {"connect", "recv"})
             => (epc' = "sleep" /\ delay' = BackoffSecs) ]_vars
    /\ [][ epc = "sleep"
             => \/ (epc' = "sleep" /\ delay' = BackoffSecs)
                \/ (epc' = "connect" /\ delay' = NoDelay) ]_vars
    /\ [][ (epc' = "connect" /\ epc # "connect")
             => epc \in {"init", "sleep", "recv"} ]_vars
    /\ [](epc = "connect" => ENABLED ConnectErr)
    /\ (epc = "sleep" ~> epc = "connect")

\* A connect attempt made after a stream had ended has failed and the engine
\* is in its wait.
C12_Witness == epc = "sleep" /\ delay = BackoffSecs /\ lost # None /\ applied

\* The states of the engine's life cycle: the task not yet polled or in its
\* sleep, a connect attempt under way, a stream open.
EngineState ==
    IF epc \in {"init", "sleep"} THEN "Disconnected"
    ELSE IF epc = "connect" THEN "Connecting"
    ELSE IF epc \in StreamingPcs \cup ApplyPcs THEN "Streaming"
    ELSE "Stopped"

\* A step of the engine task.
EngineStep ==
    \/ Start \/ ConnectOk \/ ConnectErr \/ SleepDone
    \/ RecvItem \/ RecvEnd \/ DispatchApply \/ DispatchDrop
    \/ PsLock \/ PsClearBids \/ PsClearAsks \/ PsInsertBid \/ PsBidsDone
    \/ PsInsertAsk \/ PsAsksDone \/ PsFinish

\* The engine awaits the guard, and the reader holding it is able to go on to
\* the point where it drops it.
AwaitsGuard ==
    /\ epc = "ps_lock"
    /\ \E r \in Readers : r \in holders /\ ENABLED (RCompute(r) \/ RReturn(r))

\* C13: start never returns and the engine never stops for good: in every
\* reachable state the engine is Disconnected, Connecting or Streaming, and a
\* next step of it is enabled, at once or, where it awaits the order book's
\* guard, as soon as the reader holding the guard has dropped it.
C13_NoTerminalState ==
    /\ EngineState \in {"Disconnected", "Connecting", "Streaming"}
    /\ (ENABLED EngineStep) \/ AwaitsGuard

\* A stream has ended, a new one is open, and the engine, with an update of
\* the new stream in hand, awaits the guard a reader holds.
C13_Witness ==
    /\ epc = "ps_lock"
    /\ lost # None
    /\ applied
    /\ \E r \in Readers : r \in holders

\* The waits of start: the backoff, the connect attempt, the next item.
EngineWaits == epc \in {"sleep", "connect", "recv"}

\* C14: the engine holds the guard of the order book exactly from the lock
\* of process_snapshot to its return: it holds none while it waits out the
\* backoff, waits for a connection or waits for the next item, nor anywhere
\* else in start; and during those waits a caller of get_best_price gets the
\* guard unless another reader has it.
C14_GuardOnlyInsideApply ==
    /\ Engine \in holders <=> epc \in ApplyPcs
    /\ \A r \in Readers :
         (EngineWaits /\ rpc[r] = "idle" /\ holders \cap Readers = {})
           => ENABLED RLock(r)

\* A reader has computed a level pair while the engine, having applied an
\* update earlier, waits out the backoff.
C14_Witness ==
    /\ epc = "sleep"
    /\ applied
    /\ \E r \in Readers : rpc[r] = "computed" /\ result[r] # None

\* The last update applied has a level of qty > 0 on each side, only prices
\* above 0, and every bid price below every ask price.
ListedUncrossed ==
    /\ applied
    /\ PosPrices(listed.bids) # {}
    /\ PosPrices(listed.asks) # {}
    /\ \A p \in AllPrices(listed.bids) \cup AllPrices(listed.asks) : p > 0
    /\ \A b \in AllPrices(listed.bids) : \A a \in AllPrices(listed.asks) : b < a

\* C15: after an update whose sides both have a level of qty > 0, whose
\* prices are all above 0 and whose bid prices are all below its ask prices,
\* get_best_price computes Some((bid, ask)) with the bid price above 0 and the
\* ask price above the bid price.
C15_UncrossedUpdateUncrossedBest ==
    \A r \in Readers :
        (rpc[r] = "computed" /\ ListedUncrossed)
          => /\ result[r] # None
             /\ result[r][1][1][1] > 0
             /\ result[r][1][2][1] > result[r][1][1][1]

\* A reader has computed its value after such an update, which listed an ask
\* of qty 0 beside the ask that is stored.
C15_Witness ==
    \E r \in Readers :
        /\ rpc[r] = "computed"
        /\ ListedUncrossed
        /\ \E l \in listed.asks : l[2] = 0

\* C16: ob.timestamp is the clock value read as the last step of the last
\* process_snapshot.  Until the first one returns it is the value read by
\* new; the step that ends a process_snapshot sets it to the clock value of
\* that moment, which is no earlier than the clock value of any earlier moment
\* because the clock never runs backwards, and no earlier than the timestamp
\* it replaces; no step lowers it.
C16_TimestampOfLastApply ==
    /\ [](~applied => ts = 0)
    /\ [][ now' >= now ]_vars
    /\ [][ (epc = "ps_ts" /\ epc' = "recv") => (ts' = now /\ ts' >= ts) ]_vars
    /\ [][ ts' >= ts ]_vars
    /\ [][ ts' # ts => (epc = "ps_ts" /\ epc' = "recv") ]_vars

\* A second process_snapshot has returned, later than the creation of the
\* book, and the clock has not moved since.
C16_Witness == epc = "recv" /\ applied /\ found /\ ts > 0 /\ ts = now

\* The string is no decimal number: parse::<f64>() gives Err.
Unparsable(s) == s \notin DOMAIN NumVal

\* What the map of a side holds for the pairs of the list that have a string
\* that does not parse.
HoldsUnparsable(m, pairs) ==
    \A i \in 1..Len(pairs) :
        /\ (Unparsable(pairs[i][1]) /\ ~Unparsable(pairs[i][2]))
             => /\ Price(pairs[i]) = 0
                /\ Qty(pairs[i]) > 0 => 0 \in DOMAIN m
                /\ LastPositive(pairs, i) => m[0] = NumVal[pairs[i][2]]
        /\ Unparsable(pairs[i][2])
             => /\ Qty(pairs[i]) = 0
                /\ Price(pairs[i]) \in DOMAIN m
                     => \E j \in 1..Len(pairs) :
                           /\ j # i
                           /\ Price(pairs[j]) = Price(pairs[i])
                           /\ Qty(pairs[j]) > 0

\* C17: a pair whose price string does not parse is taken at price 0 and,
\* with a qty above 0, stored at 0; a pair whose qty string does not parse is
\* taken at qty 0 and stores nothing; the other pairs of the update are stored
\* as they are without it: when process_snapshot is about to return each map
\* holds, per price, the last pair of qty > 0.
C17_UnparsableReadsAsZero ==
    PsDone => /\ HoldsUnparsable(bids, data.bids)
              /\ HoldsUnparsable(asks, data.asks)
              /\ HoldsLastPositive(bids, data.bids)
              /\ HoldsLastPositive(asks, data.asks)
              /\ \A i \in 1..Len(data.bids) :
                    (LastPositive(data.bids, i) /\ ~Unparsable(data.bids[i][1]))
                      => bids[NumVal[data.bids[i][1]]] = NumVal[data.bids[i][2]]
              /\ \A i \in 1..Len(data.asks) :
                    (LastPositive(data.asks, i) /\ ~Unparsable(data.asks[i][1]))
                      => asks[NumVal[data.asks[i][1]]] = NumVal[data.asks[i][2]]

\* process_snapshot is about to return from bids that list a pair with an
\* unparsable price, a pair with an unparsable qty and a pair of two numbers.
C17_Witness ==
    /\ PsDone
    /\ \E i, j, k \in 1..Len(data.bids) :
          /\ Unparsable(data.bids[i][1])
          /\ Unparsable(data.bids[j][2])
          /\ ~Unparsable(data.bids[k][1])
          /\ ~Unparsable(data.bids[k][2])
          /\ Qty(data.bids[k]) > 0
          /\ 0 \in DOMAIN bids
          /\ Price(data.bids[k]) \in DOMAIN bids

\* C18: get_best_price reads and process_snapshot alone writes: a step that
\* changes the bids, the asks or the timestamp is a step of the engine taken
\* inside process_snapshot with the guard in hand, and no step of a reader
\* changes any of the three.
C18_OnlyApplyMutates ==
    /\ [][ book' # book
             => /\ epc \in ApplyPcs
                /\ Engine \in holders
                /\ reader' = reader ]_vars
    /\ [][ reader' # reader => book' = book ]_vars

\* A reader has computed a pair of levels from a book stamped after its
\* creation, and the book still has the levels it read.
C18_Witness ==
    \E r \in Readers :
        /\ rpc[r] = "computed"
        /\ result[r] # None
        /\ result[r] = GetBestPrice(bids, asks)
        /\ ts > 0

\* C19: the mutex has one guard: at most one task holds it in any state, the
\* readers holding it are those between the lock and the return of
\* get_best_price, so never two of them at once, and from the lock of
\* process_snapshot to its return, the time in which the maps are cleared and
\* refilled, the engine is the one holder.
C19_OneGuard ==
    /\ Cardinality(holders) <= 1
    /\ \A r \in Readers : r \in holders <=> rpc[r] \in {"locked", "computed"}
    /\ \A r1, r2 \in Readers : (r1 \in holders /\ r2 \in holders) => r1 = r2
    /\ epc \in ApplyPcs => holders = {Engine}

\* One reader holds the guard while the engine awaits it with an update in
\* hand and another reader is yet to ask for it.
C19_Witness ==
    /\ epc = "ps_lock"
    /\ \E r1, r2 \in Readers :
          /\ r1 # r2
          /\ holders = {r1}
          /\ rpc[r1] = "locked"
          /\ rpc[r2] = "idle"

\* The places of the list that name price p, and those of them with qty > 0.
Occurrences(pairs, p) == { i \in 1..Len(pairs) : Price(pairs[i]) = p }
PositiveOccurrences(pairs, p) == { i \in Occurrences(pairs, p) : Qty(pairs[i]) > 0 }

\* For a price the list names more than once the map holds the quantity of
\* the last place with qty > 0, whatever follows that place, and holds nothing
\* when there is no such place.
DuplicatesKeepLastPositive(m, pairs) ==
    \A p \in { Price(pairs[i]) : i \in 1..Len(pairs) } :
        Cardinality(Occurrences(pairs, p)) >= 2
          => IF PositiveOccurrences(pairs, p) = {}
             THEN p \notin DOMAIN m
             ELSE /\ p \in DOMAIN m
                  /\ m[p] = Qty(pairs[MaxOf(PositiveOccurrences(pairs, p))])

\* C20: when process_snapshot is about to return from an update that names a
\* price several times on one side, that side's map holds for the price the
\* quantity of its last occurrence of qty > 0; an occurrence of qty <= 0 that
\* comes after it has removed nothing.
C20_DuplicatePriceKeepsLastPositive ==
    PsDone => /\ DuplicatesKeepLastPositive(bids, data.bids)
              /\ DuplicatesKeepLastPositive(asks, data.asks)
              /\ \A i, j \in 1..Len(data.asks) :
                    (i < j /\ Price(data.asks[i]) = Price(data.asks[j])
                       /\ Qty(data.asks[i]) > 0 /\ Qty(data.asks[j]) <= 0)
                      => Price(data.asks[i]) \in DOMAIN asks
              /\ \A i, j \in 1..Len(data.bids) :
                    (i < j /\ Price(data.bids[i]) = Price(data.bids[j])
                       /\ Qty(data.bids[i]) > 0 /\ Qty(data.bids[j]) <= 0)
                      => Price(data.bids[i]) \in DOMAIN bids

\* The asks name a price with a qty > 0 and after it with a qty <= 0, and
\* the level of the first is in the ask map as process_snapshot returns.
C20_Witness ==
    /\ PsDone
    /\ \E i, j \in 1..Len(data.asks) :
          /\ i < j
          /\ Price(data.asks[i]) = Price(data.asks[j])
          /\ Qty(data.asks[i]) > 0
          /\ Qty(data.asks[j]) <= 0
          /\ Price(data.asks[i]) \in DOMAIN asks
          /\ asks[Price(data.asks[i])] = Qty(data.asks[i])

====
